---------------------------- MODULE Spec2Model ----------------------------
(***************************************************************************)
(* Model of lsp::Connection (src/lsp/connection.cpp): the framing layer    *)
(* that writes and reads `Content-Length: <n>\r\n\r\n<body>` messages on a *)
(* pair of byte streams, guarded by one mutex.                             *)
(*                                                                         *)
(* A byte is a one-character string; a byte string (std::string, a stream  *)
(* buffer) is a sequence of bytes.                                         *)
(***************************************************************************)
EXTENDS Integers, Sequences, FiniteSets

(***************************************************************************)
(* Bounds of the model.                                                    *)
(***************************************************************************)
\* number of threads that send
NumSenders == 2
\* total number of sendMessage / sendMessageBatch calls
MaxSends == 2
\* largest batch handed to sendMessageBatch
MaxBatch == 1
\* number of frames the peer puts on the input stream
MaxFrames == 1
\* number of receiveMessage calls
MaxCalls == 3

(***************************************************************************)
(* Bytes and byte strings.                                                 *)
(***************************************************************************)
CR == "\r"
LF == "\n"
\* the value-initialised char of std::string::resize
NUL == "\\0"
\* std::char_traits<char>::eof(): not a byte
EOF == "EOF"
\* std::string_view::npos
npos == -1

Digits == <<"0", "1", "2", "3", "4", "5", "6", "7", "8", "9">>

IsDigit(c) == \E i \in 1..10 : Digits[i] = c

DigitVal(c) == (CHOOSE i \in 1..10 : Digits[i] = c) - 1

\* std::to_string(std::size_t): decimal, no sign, no leading zeros
RECURSIVE to_string(_)
to_string(n) ==
    IF n < 10 THEN <<Digits[n + 1]>>
    ELSE to_string(n \div 10) \o <<Digits[(n % 10) + 1]>>

\* the tail of s from 0-based index i (string_view::substr(i))
Substr(s, i) == IF i >= Len(s) THEN <<>> ELSE SubSeq(s, i + 1, Len(s))

\* string_view::substr(0, n), n = npos meaning "to the end"
Prefix(s, n) == IF n = npos \/ n >= Len(s) THEN s ELSE SubSeq(s, 1, n)

\* string_view::starts_with
StartsWith(s, p) == Len(s) >= Len(p) /\ SubSeq(s, 1, Len(p)) = p

\* string_view::find(pattern): 0-based index of the first occurrence, or npos
FindStr(s, p) ==
    LET hits == {i \in 0..(Len(s) - Len(p)) : SubSeq(s, i + 1, i + Len(p)) = p}
    IN  IF hits = {} THEN npos ELSE CHOOSE i \in hits : \A j \in hits : i <= j

\* string_view::find(char)
FindChar(s, c) == FindStr(s, <<c>>)

\* std::isspace in the "C" locale, on the bytes of the model
IsSpace(c) == c \in {" ", "\t", LF, CR, "\f"}

RECURSIVE TrimLeft(_)
TrimLeft(s) ==
    IF s # <<>> /\ IsSpace(Head(s)) THEN TrimLeft(Tail(s)) ELSE s

RECURSIVE TrimRight(_)
TrimRight(s) ==
    IF s # <<>> /\ IsSpace(s[Len(s)]) THEN TrimRight(SubSeq(s, 1, Len(s) - 1)) ELSE s

\* util::str::trimView: whitespace removed at both ends
TrimView(s) == TrimRight(TrimLeft(s))

\* the leading decimal digits of s
RECURSIVE LeadingDigits(_)
LeadingDigits(s) ==
    IF s # <<>> /\ IsDigit(Head(s)) THEN <<Head(s)>> \o LeadingDigits(Tail(s)) ELSE <<>>

RECURSIVE DecimalValue(_)
DecimalValue(ds) ==
    IF ds = <<>> THEN 0
    ELSE 10 * DecimalValue(SubSeq(ds, 1, Len(ds) - 1)) + DigitVal(ds[Len(ds)])

\* std::from_chars(first, last, std::size_t& value): the longest prefix of
\* decimal digits is converted (no sign, no leading white space); when
\* there is none, value is left as it was.  Every digit string of the
\* model is below 2^64, the only other case that leaves value unmodified.
FromChars(s, value) ==
    IF LeadingDigits(s) = <<>> THEN value ELSE DecimalValue(LeadingDigits(s))

RECURSIVE Flatten(_)
Flatten(ss) == IF ss = <<>> THEN <<>> ELSE Head(ss) \o Flatten(Tail(ss))

RECURSIVE Repeat(_, _)
Repeat(c, n) == IF n <= 0 THEN <<>> ELSE <<c>> \o Repeat(c, n - 1)

(***************************************************************************)
(* The JSON codec and the JSON-RPC message model (lsp/json, lsp/jsonrpc):  *)
(* collaborators of the connection.  A message is [id |-> i]; its JSON is  *)
(* the object {"id":i}; a batch is an array of such objects.               *)
(***************************************************************************)
JsonObject(i) == [type |-> "object", id |-> i, items |-> <<>>]

JsonArray(xs) == [type |-> "array", id |-> 0, items |-> xs]

JsonError == [type |-> "error", id |-> 0, items |-> <<>>]

ObjOpen == <<"{", "\"", "i", "d", "\"", ":">>

\* jsonrpc::Message::toJson
toJson(m) == JsonObject(m.id)

RECURSIVE JoinComma(_)
JoinComma(ss) ==
    IF ss = <<>> THEN <<>>
    ELSE IF Len(ss) = 1 THEN Head(ss)
    ELSE Head(ss) \o <<",">> \o JoinComma(Tail(ss))

\* json::stringify
stringify(j) ==
    IF j.type = "object" THEN ObjOpen \o to_string(j.id) \o <<"}">>
    ELSE <<"[">>
         \o JoinComma([k \in 1..Len(j.items) |->
                          ObjOpen \o to_string(j.items[k].id) \o <<"}">>])
         \o <<"]">>

\* the text of one object {"id":<digits>} read back
ParseObject(s) ==
    IF /\ StartsWith(s, ObjOpen)
       /\ Len(s) >= Len(ObjOpen) + 2
       /\ s[Len(s)] = "}"
    THEN LET ds == SubSeq(s, Len(ObjOpen) + 1, Len(s) - 1)
         IN  IF LeadingDigits(ds) = ds /\ to_string(DecimalValue(ds)) = ds
             THEN JsonObject(DecimalValue(ds))
             ELSE JsonError
    ELSE JsonError

\* the texts between the commas of s
RECURSIVE SplitComma(_)
SplitComma(s) ==
    LET k == FindChar(s, ",")
    IN  IF k = npos THEN <<s>>
        ELSE <<Prefix(s, k)>> \o SplitComma(Substr(s, k + 1))

\* JSON's insignificant whitespace
JsonWs == {" ", "\t", LF, CR}

\* s without the whitespace before and after the JSON value it holds
RECURSIVE SkipWs(_)
SkipWs(s) ==
    IF s = <<>> THEN s
    ELSE IF Head(s) \in JsonWs THEN SkipWs(Tail(s))
    ELSE IF s[Len(s)] \in JsonWs THEN SkipWs(SubSeq(s, 1, Len(s) - 1))
    ELSE s

\* the text of a JSON value without whitespace around it, read back
parseValue(s) ==
    IF s # <<>> /\ Head(s) = "[" /\ s[Len(s)] = "]" /\ Len(s) >= 2
    THEN LET inner == SubSeq(s, 2, Len(s) - 1)
             parts == IF inner = <<>> THEN <<>> ELSE SplitComma(inner)
             objs  == [k \in 1..Len(parts) |-> ParseObject(parts[k])]
         IN  IF \E k \in 1..Len(objs) : objs[k] = JsonError
             THEN JsonError
             ELSE JsonArray(objs)
    ELSE ParseObject(s)

\* json::parse: a JSON value or an error (an exception of the codec)
parse(s) == parseValue(SkipWs(s))

\* jsonrpc::messageFromJson: an object is one message, an array a batch
messageFromJson(j) ==
    IF j.type = "object" THEN [kind |-> "message", msgs |-> <<[id |-> j.id]>>]
    ELSE IF j.type = "array"
    THEN [kind |-> "batch",
          msgs |-> [k \in 1..Len(j.items) |-> [id |-> j.items[k].id]]]
    ELSE [kind |-> "error", msgs |-> <<>>]

\* the messages the threads send: two, whose JSON differs in length
MsgIds == {3, 14}

Msgs == [id : MsgIds]

RECURSIVE SeqsUpTo(_, _)
SeqsUpTo(S, n) ==
    IF n = 0 THEN {<<>>}
    ELSE LET shorter == SeqsUpTo(S, n - 1)
         IN  shorter \cup {Append(q, x) : q \in {r \in shorter : Len(r) = n - 1}, x \in S}

\* a batch of two messages whose order shows in the array written
PairBatch == <<[id |-> 14], [id |-> 3]>>

Batches == SeqsUpTo(Msgs, MaxBatch) \cup {PairBatch}

\* an array that holds the messages' JSON last to first
batchToJsonReversed(batch) ==
    JsonArray([k \in 1..Len(batch) |-> toJson(batch[Len(batch) + 1 - k])])

\* Connection::sendMessageBatch: the json::Array it builds, one element
\* pushed back per message of the batch
batchToJson(batch) == JsonArray([k \in 1..Len(batch) |-> toJson(batch[k])])

(***************************************************************************)
(* The header codec.                                                       *)
(***************************************************************************)
ContentLengthKey == <<"C", "o", "n", "t", "e", "n", "t", "-", "L", "e", "n", "g", "t", "h">>

ContentTypeKey == <<"C", "o", "n", "t", "e", "n", "t", "-", "T", "y", "p", "e">>

HeaderTerminator == <<CR, LF, CR, LF>>

MimePrefix == <<"a", "p", "p", "l", "i", "c", "a", "t", "i", "o", "n", "/", "v", "s", "c", "o", "d", "e", "-", "j", "s", "o", "n", "r", "p", "c">>

charsetKey == <<"c", "h", "a", "r", "s", "e", "t", "=">>

Utf8Dash == <<"u", "t", "f", "-", "8">>

Utf8Plain == <<"u", "t", "f", "8">>

\* MessageHeader's default member initialisers (connection.h)
DefaultContentLength == 0

DefaultContentType == MimePrefix \o <<";", " ">> \o charsetKey \o Utf8Dash

\* MessageHeader{}: a header as default-constructed
MessageHeader == [contentLength |-> DefaultContentLength, contentType |-> DefaultContentType]

\* a header that counts the string's terminating NUL into the length
headerStrCountsNul(header) ==
    ContentLengthKey \o <<":", " ">> \o to_string(header.contentLength + 1) \o HeaderTerminator

\* "Content-Length: " + std::to_string(header.contentLength) + "\r\n\r\n"
headerStr(header) ==
    ContentLengthKey \o <<":", " ">> \o to_string(header.contentLength) \o HeaderTerminator

\* m_in.peek(): the next byte, or EOF when none can be read.  eofbit and
\* failbit are only ever set by an operation that reached the end of the
\* buffer, so "no byte can be read" is pos = Len(buf).
peek(buf, pos) == IF pos < Len(buf) THEN buf[pos + 1] ELSE EOF

\* std::getline(m_in, lineData): the bytes up to the next line feed, which is
\* consumed and not stored; at the end of the stream, the bytes that are left
getline(buf, pos) ==
    LET k == FindChar(Substr(buf, pos), LF)
    IN  IF k = npos THEN [line |-> Substr(buf, pos), pos |-> Len(buf)]
        ELSE [line |-> SubSeq(buf, pos + 1, pos + k), pos |-> pos + k + 1]

\* a field parser that rejects the fields it does not know
readNextMessageHeaderFieldStrict(buf, pos, header) ==
    IF peek(buf, pos) = EOF
    THEN [status |-> "ConnectionError", pos |-> pos, header |-> header]
    ELSE LET got == getline(buf, pos)
             line == got.line
             separatorIdx == FindChar(line, ":")
             key == TrimView(Prefix(line, separatorIdx))
             value == TrimView(Substr(line, separatorIdx + 1))
         IN  [status |-> IF separatorIdx # npos /\ key \notin {ContentLengthKey, ContentTypeKey}
                         THEN "ProtocolError" ELSE "ok",
              pos |-> got.pos,
              header |->
                IF separatorIdx = npos THEN header
                ELSE IF key = ContentLengthKey
                THEN [header EXCEPT !.contentLength = FromChars(value, @)]
                ELSE IF key = ContentTypeKey
                THEN [header EXCEPT !.contentType = value]
                ELSE header]

\* Connection::readNextMessageHeaderField
readNextMessageHeaderField(buf, pos, header) ==
    IF peek(buf, pos) = EOF
    THEN [status |-> "ConnectionError", pos |-> pos, header |-> header]
    ELSE LET got == getline(buf, pos)
             line == got.line
             separatorIdx == FindChar(line, ":")
             key == TrimView(Prefix(line, separatorIdx))
             value == TrimView(Substr(line, separatorIdx + 1))
         IN  [status |-> "ok",
              pos |-> got.pos,
              header |->
                IF separatorIdx = npos THEN header
                ELSE IF key = ContentLengthKey
                THEN [header EXCEPT !.contentLength = FromChars(value, @)]
                ELSE IF key = ContentTypeKey
                THEN [header EXCEPT !.contentType = value]
                ELSE header]

\* a header parser that reports a lone carriage return before consuming it
RECURSIVE readHeaderLoopThrowsAtCR(_, _, _)
readHeaderLoopThrowsAtCR(buf, pos, header) ==
    IF peek(buf, pos) # CR
    THEN LET r == readNextMessageHeaderField(buf, pos, header)
         IN  IF r.status # "ok" THEN r ELSE readHeaderLoopThrowsAtCR(buf, r.pos, r.header)
    ELSE IF peek(buf, pos + 1) # LF
    THEN [status |-> "ProtocolError", pos |-> pos, header |-> header]
    ELSE [status |-> "ok", pos |-> pos + 2, header |-> header]

\* a header parser that takes the byte after the carriage return unchecked
RECURSIVE readHeaderLoopUnchecked(_, _, _)
readHeaderLoopUnchecked(buf, pos, header) ==
    IF peek(buf, pos) # CR
    THEN LET r == readNextMessageHeaderField(buf, pos, header)
         IN  IF r.status # "ok" THEN r ELSE readHeaderLoopUnchecked(buf, r.pos, r.header)
    ELSE [status |-> "ok", pos |-> IF pos + 2 <= Len(buf) THEN pos + 2 ELSE Len(buf),
          header |-> header]

\* a header parser that leaves the terminator's line feed in the stream
RECURSIVE readHeaderLoopKeepsLF(_, _, _)
readHeaderLoopKeepsLF(buf, pos, header) ==
    IF peek(buf, pos) # CR
    THEN LET r == readNextMessageHeaderField(buf, pos, header)
         IN  IF r.status # "ok" THEN r ELSE readHeaderLoopKeepsLF(buf, r.pos, r.header)
    ELSE IF peek(buf, pos + 1) # LF
    THEN [status |-> "ProtocolError", pos |-> pos + 1, header |-> header]
    ELSE [status |-> "ok", pos |-> pos + 1, header |-> header]

\* the loop and the terminator check of Connection::readMessageHeader
RECURSIVE readHeaderLoop(_, _, _)
readHeaderLoop(buf, pos, header) ==
    IF peek(buf, pos) # CR
    THEN LET r == readNextMessageHeaderField(buf, pos, header)
         IN  IF r.status # "ok" THEN r ELSE readHeaderLoop(buf, r.pos, r.header)
    ELSE IF peek(buf, pos + 1) # LF
    THEN [status |-> "ProtocolError", pos |-> pos + 1, header |-> header]
    ELSE [status |-> "ok", pos |-> pos + 2, header |-> header]

\* a readMessageHeader that starts from a header without a content type
readMessageHeaderEmptyType(buf, pos) ==
    readHeaderLoop(buf, pos, [MessageHeader EXCEPT !.contentType = <<>>])

\* Connection::readMessageHeader
readMessageHeader(buf, pos) == readHeaderLoop(buf, pos, MessageHeader)

\* a body read that stops at the end of the line
readContentToLineEnd(buf, pos, n) ==
    LET got == getline(buf, pos)
    IN  [content |-> got.line, nread |-> Len(got.line), pos |-> got.pos]

\* m_in.read(&content[0], n) into a string resized to n: the bytes that are
\* there, the rest of the string left as resize() filled it
readContent(buf, pos, n) ==
    LET avail == Len(buf) - pos
        got == IF n <= avail THEN n ELSE avail
    IN  [content |-> SubSeq(buf, pos + 1, pos + got) \o Repeat(NUL, n - got),
         nread |-> got,
         pos |-> pos + got]

TypeErrorText == <<"U", "n", "s", "u", "p", "p", "o", "r", "t", "e", "d", " ", "o", "r", " ", "i", "n", "v", "a", "l", "i", "d", " ", "c", "o", "n", "t", "e", "n", "t", " ", "t", "y", "p", "e", ":", " ">>

CharsetErrorText == <<"U", "n", "s", "u", "p", "p", "o", "r", "t", "e", "d", " ", "o", "r", " ", "i", "n", "v", "a", "l", "i", "d", " ", "c", "h", "a", "r", "a", "c", "t", "e", "r", " ", "e", "n", "c", "o", "d", "i", "n", "g", ":", " ">>

\* the charset named by a content type, when it names one
charsetOf(contentType) ==
    LET idx == FindStr(contentType, charsetKey)
        charset == Substr(contentType, idx + Len(charsetKey))
    IN  TrimView(Prefix(charset, FindChar(charset, ";")))

\* content-type checks whose error text does not carry the value received
validateContentTypeNoValue(contentType) ==
    IF ~StartsWith(contentType, MimePrefix)
    THEN [status |-> "ProtocolError", reason |-> "type",
          what |-> TypeErrorText]
    ELSE IF /\ FindStr(contentType, charsetKey) # npos
            /\ charsetOf(contentType) # Utf8Dash
            /\ charsetOf(contentType) # Utf8Plain
    THEN [status |-> "ProtocolError", reason |-> "charset",
          what |-> CharsetErrorText \o charsetOf(contentType)]
    ELSE [status |-> "ok", reason |-> "", what |-> <<>>]

\* content-type checks that accept the charset utf-8 alone
validateContentTypeDashOnly(contentType) ==
    IF ~StartsWith(contentType, MimePrefix)
    THEN [status |-> "ProtocolError", reason |-> "type",
          what |-> TypeErrorText \o contentType]
    ELSE IF /\ FindStr(contentType, charsetKey) # npos
            /\ charsetOf(contentType) # Utf8Dash
    THEN [status |-> "ProtocolError", reason |-> "charset",
          what |-> CharsetErrorText \o charsetOf(contentType)]
    ELSE [status |-> "ok", reason |-> "", what |-> <<>>]

\* the content-type checks of Connection::receiveMessage: the exception
\* thrown, or none
validateContentType(contentType) ==
    IF ~StartsWith(contentType, MimePrefix)
    THEN [status |-> "ProtocolError", reason |-> "type",
          what |-> TypeErrorText \o contentType]
    ELSE IF /\ FindStr(contentType, charsetKey) # npos
            /\ charsetOf(contentType) # Utf8Dash
            /\ charsetOf(contentType) # Utf8Plain
    THEN [status |-> "ProtocolError", reason |-> "charset",
          what |-> CharsetErrorText \o charsetOf(contentType)]
    ELSE [status |-> "ok", reason |-> "", what |-> <<>>]

(***************************************************************************)
(* The state of one Connection and of the threads that use it.             *)
(***************************************************************************)
VARIABLES
    m_in,           \* the input stream: its bytes, the read position, its eofbit
    m_out,          \* the output stream: the bytes written, and how many are flushed
    m_writeMutex,   \* 0 when free, else the thread that holds it
    pc,             \* where each thread is
    loc,            \* each thread's locals: content, header, ...
    results,        \* what each finished receiveMessage call did, in order
    trace,          \* the calls, lock operations and stream writes, in order
    shared          \* whether m_in and m_out are one stream object (a std::stringstream)

vars == <<m_in, m_out, m_writeMutex, pc, loc, results, trace, shared>>

Senders == 1..NumSenders

Receiver == NumSenders + 1

Threads == Senders \cup {Receiver}

\* no public send operation is in progress
NoCall == [op |-> "none", messages |-> <<>>]

NoLocals ==
    [call |-> NoCall, json |-> JsonError, content |-> <<>>, header |-> MessageHeader,
     start |-> 0, bodyStart |-> -1, nread |-> 0]

Event(t, op, bytes) ==
    [thread |-> t, op |-> op, bytes |-> bytes, arg |-> JsonError, call |-> NoCall]

\* a write to m_out, with the JSON value writeJsonMessage was given and the
\* public operation that called it
WriteEvent(t, op, bytes, j) ==
    [thread |-> t, op |-> op, bytes |-> bytes, arg |-> j, call |-> loc[t].call]

\* the send calls made so far
SendCalls ==
    Cardinality({t \in Senders : pc[t] \in {"writeMessage", "aborted"}})
    + Len(SelectSeq(trace, LAMBDA e : e.op = "lock" /\ e.thread \in Senders))

\* a lock that is taken without waiting for its holder
LockGuardNoWait(t) == m_writeMutex' = t

\* std::lock_guard lock{m_writeMutex}: blocks until the mutex is free
LockGuard(t) == m_writeMutex = 0 /\ m_writeMutex' = t

(***************************************************************************)
(* The send path.                                                          *)
(***************************************************************************)
\* Connection::writeJsonMessage up to its call of writeMessage.  On an empty
\* serialization the assert stops the program in a build that keeps asserts;
\* a build with NDEBUG goes on to writeMessage, and the asserts of
\* writeMessageHeader are gone from it as well.
WriteJsonMessage(t, j, call) ==
    /\ pc[t] = "idle"
    /\ SendCalls < MaxSends
    /\ loc' = [loc EXCEPT ![t] = [NoLocals EXCEPT !.call = call, !.json = j,
                                                   !.content = stringify(j)]]
    /\ \E next \in (IF stringify(j) = <<>> THEN {"aborted", "writeMessage"}
                                           ELSE {"writeMessage"}) :
          pc' = [pc EXCEPT ![t] = next]
    /\ UNCHANGED <<m_in, m_out, m_writeMutex, results, trace, shared>>

\* Connection::sendMessage
SendMessage(t) ==
    \E m \in Msgs :
        WriteJsonMessage(t, toJson(m), [op |-> "sendMessage", messages |-> <<m>>])

\* Connection::sendMessageBatch
SendMessageBatch(t) ==
    \E batch \in Batches :
        WriteJsonMessage(t, batchToJson(batch),
                         [op |-> "sendMessageBatch", messages |-> batch])

\* Connection::writeMessage: the lock
WriteLock(t) ==
    /\ pc[t] = "writeMessage"
    /\ LockGuard(t)
    /\ pc' = [pc EXCEPT ![t] = "writeMessageHeader"]
    /\ trace' = Append(trace, Event(t, "lock", <<>>))
    /\ UNCHANGED <<m_in, m_out, loc, results, shared>>

\* what m_out.write stores of the bytes it is given: nothing when the stream
\* is not good(), which the output stream is when it is the input stream as
\* well and a read has set its eofbit
put(bytes) == IF shared /\ m_in.eofbit THEN <<>> ELSE bytes

\* m_out.write(bytes): on one shared stream the bytes stored are there to be
\* read
Write(bytes) ==
    /\ m_out' = [m_out EXCEPT !.buf = @ \o put(bytes)]
    /\ m_in' = IF shared THEN [m_in EXCEPT !.buf = @ \o put(bytes)] ELSE m_in

\* Connection::writeMessage builds the header; Connection::writeMessageHeader
\* writes it
WriteMessageHeader(t) ==
    /\ pc[t] = "writeMessageHeader"
    /\ LET header == [MessageHeader EXCEPT !.contentLength = Len(loc[t].content)]
       IN  /\ loc' = [loc EXCEPT ![t].header = header]
           /\ Write(headerStr(header))
           /\ trace' = Append(trace, WriteEvent(t, "header", put(headerStr(header)),
                                                loc[t].json))
    /\ pc' = [pc EXCEPT ![t] = "write"]
    /\ UNCHANGED <<m_writeMutex, results, shared>>

\* a body write after which the lock is released without a flush
WriteBodyNoFlush(t) ==
    /\ pc[t] = "write"
    /\ Write(loc[t].content)
    /\ trace' = Append(trace, WriteEvent(t, "body", put(loc[t].content), loc[t].json))
    /\ pc' = [pc EXCEPT ![t] = "unlock"]
    /\ UNCHANGED <<m_writeMutex, loc, results, shared>>

\* m_out.write(content.data(), content.size())
WriteBody(t) ==
    /\ pc[t] = "write"
    /\ Write(loc[t].content)
    /\ trace' = Append(trace, WriteEvent(t, "body", put(loc[t].content), loc[t].json))
    /\ pc' = [pc EXCEPT ![t] = "flush"]
    /\ UNCHANGED <<m_writeMutex, loc, results, shared>>

\* m_out.flush()
Flush(t) ==
    /\ pc[t] = "flush"
    /\ m_out' = [m_out EXCEPT !.flushed = Len(m_out.buf)]
    /\ trace' = Append(trace, Event(t, "flush", <<>>))
    /\ pc' = [pc EXCEPT ![t] = "unlock"]
    /\ UNCHANGED <<m_in, m_writeMutex, loc, results, shared>>

\* the lock_guard of writeMessage goes out of scope
WriteUnlock(t) ==
    /\ pc[t] = "unlock"
    /\ m_writeMutex' = 0
    /\ trace' = Append(trace, Event(t, "unlock", <<>>))
    /\ pc' = [pc EXCEPT ![t] = "idle"]
    /\ loc' = [loc EXCEPT ![t] = NoLocals]
    /\ UNCHANGED <<m_in, m_out, results, shared>>

Send(t) ==
    \/ SendMessage(t)
    \/ SendMessageBatch(t)
    \/ WriteLock(t)
    \/ WriteMessageHeader(t)
    \/ WriteBody(t)
    \/ Flush(t)
    \/ WriteUnlock(t)

(***************************************************************************)
(* The receive path.                                                       *)
(***************************************************************************)
\* a way out of receiveMessage that unlocks on return and not on a throw
LeaveHoldsLockOnThrow(t, outcome, reason, what, value, pos, header) ==
    /\ m_writeMutex' = IF outcome = "returned" THEN 0 ELSE m_writeMutex
    /\ pc' = [pc EXCEPT ![t] = "idle"]
    /\ loc' = [loc EXCEPT ![t] = NoLocals]
    /\ results' = Append(results,
                         [outcome |-> outcome, reason |-> reason, what |-> what,
                          value |-> value,
                          from |-> loc[t].start, to |-> pos,
                          header |-> header,
                          bodyStart |-> loc[t].bodyStart,
                          nread |-> loc[t].nread,
                          content |-> loc[t].content])
    /\ trace' = Append(trace, Event(t, "unlock", <<>>))

\* receiveMessage is left, by return or by an exception: its lock_guard
\* releases the mutex.  The call's outcome is recorded: what it threw or
\* returned, the stream positions at its start and end, the header as far as
\* it was parsed, where the body started and how many body bytes were read
Leave(t, outcome, reason, what, value, pos, header) ==
    /\ m_writeMutex' = 0
    /\ pc' = [pc EXCEPT ![t] = "idle"]
    /\ loc' = [loc EXCEPT ![t] = NoLocals]
    /\ results' = Append(results,
                         [outcome |-> outcome, reason |-> reason, what |-> what,
                          value |-> value,
                          from |-> loc[t].start, to |-> pos,
                          header |-> header,
                          bodyStart |-> loc[t].bodyStart,
                          nread |-> loc[t].nread,
                          content |-> loc[t].content])
    /\ trace' = Append(trace, Event(t, "unlock", <<>>))

NoValue == [kind |-> "none", msgs |-> <<>>]

\* a receiveMessage that does not wait for the mutex the senders use
ReceiveLockUnguarded(t) ==
    /\ pc[t] = "idle"
    /\ Len(results) < MaxCalls
    /\ pc' = [pc EXCEPT ![t] = "peek"]
    /\ loc' = [loc EXCEPT ![t] = [NoLocals EXCEPT !.start = m_in.pos]]
    /\ trace' = Append(trace, Event(t, "lock", <<>>))
    /\ UNCHANGED <<m_in, m_out, m_writeMutex, results, shared>>

\* receiveMessage is called: the lock
ReceiveLock(t) ==
    /\ pc[t] = "idle"
    /\ Len(results) < MaxCalls
    /\ LockGuard(t)
    /\ pc' = [pc EXCEPT ![t] = "peek"]
    /\ loc' = [loc EXCEPT ![t] = [NoLocals EXCEPT !.start = m_in.pos]]
    /\ trace' = Append(trace, Event(t, "lock", <<>>))
    /\ UNCHANGED <<m_in, m_out, results, shared>>

\* an eof check that throws the other exception
ReceivePeekThrowsProtocolError(t) ==
    /\ pc[t] = "peek"
    /\ IF peek(m_in.buf, m_in.pos) = EOF
       THEN Leave(t, "ProtocolError", "closed", <<>>, NoValue, m_in.pos, loc[t].header)
       ELSE /\ pc' = [pc EXCEPT ![t] = "readMessageHeader"]
            /\ UNCHANGED <<m_writeMutex, loc, results, trace>>
    /\ m_in' = [m_in EXCEPT !.eofbit = @ \/ peek(m_in.buf, m_in.pos) = EOF]
    /\ UNCHANGED <<m_out, shared>>

\* if(m_in.peek() == eof) throw ConnectionError
ReceivePeek(t) ==
    /\ pc[t] = "peek"
    /\ IF peek(m_in.buf, m_in.pos) = EOF
       THEN Leave(t, "ConnectionError", "closed", <<>>, NoValue, m_in.pos, loc[t].header)
       ELSE /\ pc' = [pc EXCEPT ![t] = "readMessageHeader"]
            /\ UNCHANGED <<m_writeMutex, loc, results, trace>>
    /\ m_in' = [m_in EXCEPT !.eofbit = @ \/ peek(m_in.buf, m_in.pos) = EOF]
    /\ UNCHANGED <<m_out, shared>>

\* whether the header parse r looked past the last byte of buf, which sets
\* the stream's eofbit: peek() or getline at the end of the stream end the
\* parse with an exception, the position at the end
hitEnd(r, buf) == r.status # "ok" /\ r.pos >= Len(buf)

\* a receive that checks the content type as soon as the header is parsed,
\* before the body is read
ReceiveHeaderValidatesFirst(t) ==
    /\ pc[t] = "readMessageHeader"
    /\ LET r == readMessageHeader(m_in.buf, m_in.pos)
           v == validateContentType(r.header.contentType)
       IN  /\ m_in' = [m_in EXCEPT !.pos = r.pos,
                                    !.eofbit = @ \/ hitEnd(r, m_in.buf)]
           /\ IF r.status # "ok"
              THEN Leave(t, r.status, "header", <<>>, NoValue, r.pos, r.header)
              ELSE IF v.status # "ok"
              THEN /\ m_writeMutex' = 0
                   /\ pc' = [pc EXCEPT ![t] = "idle"]
                   /\ loc' = [loc EXCEPT ![t] = NoLocals]
                   /\ results' = Append(results,
                         [outcome |-> v.status, reason |-> v.reason, what |-> v.what,
                          value |-> NoValue, from |-> loc[t].start, to |-> r.pos,
                          header |-> r.header, bodyStart |-> r.pos, nread |-> 0,
                          content |-> <<>>])
                   /\ trace' = Append(trace, Event(t, "unlock", <<>>))
              ELSE /\ loc' = [loc EXCEPT ![t].header = r.header, ![t].bodyStart = r.pos]
                   /\ pc' = [pc EXCEPT ![t] = "read"]
                   /\ UNCHANGED <<m_writeMutex, results, trace>>
    /\ UNCHANGED <<m_out, shared>>

\* auto header = readMessageHeader()
ReceiveHeader(t) ==
    /\ pc[t] = "readMessageHeader"
    /\ LET r == readMessageHeader(m_in.buf, m_in.pos)
       IN  /\ m_in' = [m_in EXCEPT !.pos = r.pos,
                                    !.eofbit = @ \/ hitEnd(r, m_in.buf)]
           /\ IF r.status # "ok"
              THEN Leave(t, r.status, "header", <<>>, NoValue, r.pos, r.header)
              ELSE /\ loc' = [loc EXCEPT ![t].header = r.header, ![t].bodyStart = r.pos]
                   /\ pc' = [pc EXCEPT ![t] = "read"]
                   /\ UNCHANGED <<m_writeMutex, results, trace>>
    /\ UNCHANGED <<m_out, shared>>

\* content.resize(header.contentLength); m_in.read(&content[0], contentLength)
ReceiveRead(t) ==
    /\ pc[t] = "read"
    /\ LET r == readContent(m_in.buf, m_in.pos, loc[t].header.contentLength)
       IN  /\ m_in' = [m_in EXCEPT !.pos = r.pos,
                                    !.eofbit = @ \/ r.nread < loc[t].header.contentLength]
           /\ loc' = [loc EXCEPT ![t].content = r.content, ![t].nread = r.nread]
    /\ pc' = [pc EXCEPT ![t] = "validate"]
    /\ UNCHANGED <<m_out, m_writeMutex, results, trace, shared>>

\* the content-type and charset checks
ReceiveValidate(t) ==
    /\ pc[t] = "validate"
    /\ LET v == validateContentType(loc[t].header.contentType)
       IN  IF v.status # "ok"
           THEN Leave(t, v.status, v.reason, v.what, NoValue, m_in.pos, loc[t].header)
           ELSE /\ pc' = [pc EXCEPT ![t] = "decode"]
                /\ UNCHANGED <<m_writeMutex, loc, results, trace>>
    /\ UNCHANGED <<m_in, m_out, shared>>

\* return jsonrpc::messageFromJson(json::parse(content)), or the codec's
\* exception
ReceiveDecode(t) ==
    /\ pc[t] = "decode"
    /\ LET value == messageFromJson(parse(loc[t].content))
       IN  IF value.kind = "error"
           THEN Leave(t, "JsonError", "json", <<>>, NoValue, m_in.pos, loc[t].header)
           ELSE Leave(t, "returned", "", <<>>, value, m_in.pos, loc[t].header)
    /\ UNCHANGED <<m_in, m_out, shared>>

Receive(t) ==
    \/ ReceiveLock(t)
    \/ ReceivePeek(t)
    \/ ReceiveHeader(t)
    \/ ReceiveRead(t)
    \/ ReceiveValidate(t)
    \/ ReceiveDecode(t)

(***************************************************************************)
(* The streams the connection is constructed on.                           *)
(***************************************************************************)
Line(key, value) == key \o <<":", " ">> \o value \o <<CR, LF>>

LengthLine(digits) == Line(ContentLengthKey, digits)

TypeLine(value) == Line(ContentTypeKey, value)

TextPlain == <<"t", "e", "x", "t", "/", "p", "l", "a", "i", "n">>

Latin1Type == MimePrefix \o <<";", " ">> \o charsetKey \o <<"l", "a", "t", "i", "n", "1">>

Utf8Type == MimePrefix \o <<";", " ">> \o charsetKey \o Utf8Plain

UpperType == MimePrefix \o <<";", " ">> \o charsetKey \o <<"U", "T", "F", "-", "8">>

PaddedType == MimePrefix \o <<";", " ">> \o charsetKey \o <<" ", "u", "t", "f", "8", " ", ";", " ", "v", "=", "1">>

UnknownKey == <<"X", "-", "U", "n", "k", "n", "o", "w", "n">>

Body1 == stringify(JsonObject(1))

\* a JSON body that starts with what reads like a header terminator
BlankLinesBody == <<CR, LF, CR, LF>> \o Body1

\* a body that reads like a header field, and is not JSON
HeaderLikeBody == LengthLine(<<"1">>)

GoodFrame == LengthLine(<<"8">>) \o <<CR, LF>> \o Body1

\* the frames a peer may send: well formed, and malformed in each way the
\* receive path distinguishes
PeerFrames ==
    { GoodFrame,
      LengthLine(<<"8">>) \o TypeLine(Utf8Type) \o <<CR, LF>> \o Body1,
      TypeLine(TextPlain) \o LengthLine(<<"8">>) \o <<CR, LF>> \o Body1,
      LengthLine(<<"8">>) \o TypeLine(Latin1Type) \o <<CR, LF>> \o Body1,
      Line(UnknownKey, <<"1">>) \o LengthLine(<<"8">>) \o <<CR, LF>> \o Body1,
      <<CR, LF>> \o Body1,
      LengthLine(<<"0">>) \o <<CR, LF>>,
      LengthLine(<<"x">>) \o <<CR, LF>> \o Body1,
      LengthLine(<<"8">>) \o <<CR>> \o Body1,
      LengthLine(<<"1", "2">>) \o <<CR, LF>> \o Body1,
      TypeLine(TextPlain) \o LengthLine(<<"1", "2">>) \o <<CR, LF>> \o Body1,
      LengthLine(<<"8">>) \o TypeLine(DefaultContentType) \o <<CR, LF>> \o Body1,
      LengthLine(<<"8">>) \o TypeLine(UpperType) \o <<CR, LF>> \o Body1,
      LengthLine(<<"8">>) \o TypeLine(PaddedType) \o <<CR, LF>> \o Body1,
      LengthLine(<<"8">>) \o Line(UnknownKey, ContentLengthKey \o <<":", " ", "9">>)
          \o TypeLine(Utf8Type) \o Line(UnknownKey, <<"1">>) \o <<CR, LF>> \o Body1,
      LengthLine(<<"1", "2">>) \o <<CR, LF>> \o BlankLinesBody,
      LengthLine(<<"1", "9">>) \o <<CR, LF>> \o HeaderLikeBody }

\* what the peer had sent of one more frame when it closed the stream
PeerTails == {Prefix(GoodFrame, k) : k \in 0..Len(GoodFrame)}

PeerStreams ==
    {Flatten(fs) \o tail : fs \in SeqsUpTo(PeerFrames, MaxFrames), tail \in PeerTails}

(***************************************************************************)
(* Specifications.                                                         *)
(***************************************************************************)
InitCommon ==
    /\ m_out = [buf |-> <<>>, flushed |-> 0]
    /\ m_writeMutex = 0
    /\ pc = [t \in Threads |-> "idle"]
    /\ loc = [t \in Threads |-> NoLocals]
    /\ results = <<>>
    /\ trace = <<>>

\* threads send concurrently
Init ==
    /\ InitCommon
    /\ m_in = [buf |-> <<>>, pos |-> 0, eofbit |-> FALSE]
    /\ shared = FALSE

Next == \E t \in Senders : Send(t)

Spec == Init /\ [][Next]_vars

\* the connection is constructed on one std::stringstream as input and as
\* output: one thread sends, another receives what has been sent
InitRoundTrip ==
    /\ InitCommon
    /\ m_in = [buf |-> <<>>, pos |-> 0, eofbit |-> FALSE]
    /\ shared = TRUE

NextRoundTrip ==
    \/ Send(1)
    \/ Receive(Receiver)

SpecRoundTrip == InitRoundTrip /\ [][NextRoundTrip]_vars

\* one thread receives what a peer sent before it closed the stream
InitRecv ==
    /\ InitCommon
    /\ m_in \in {[buf |-> s, pos |-> 0, eofbit |-> FALSE] : s \in PeerStreams}
    /\ shared = FALSE

NextRecv == Receive(Receiver)

SpecRecv == InitRecv /\ [][NextRecv]_vars

\* what the peer sent in the runs where one thread sends while another
\* receives: nothing, a frame that is rejected for its
\* content type followed by a well-formed one, a frame whose header ends in
\* a lone carriage return
ConnStreams ==
    { <<>>,
      TypeLine(TextPlain) \o LengthLine(<<"8">>) \o <<CR, LF>> \o Body1 \o GoodFrame,
      LengthLine(<<"8">>) \o <<CR>> \o Body1 }

\* one thread sends while another receives
InitConn ==
    /\ InitCommon
    /\ m_in \in {[buf |-> s, pos |-> 0, eofbit |-> FALSE] : s \in ConnStreams}
    /\ shared = FALSE

NextConn ==
    \/ Send(1)
    \/ Receive(Receiver)

SpecConn == InitConn /\ [][NextConn]_vars

(***************************************************************************)
(* The send path: properties.                                              *)
(***************************************************************************)
\* the writes to the output stream, in the order they happened
Writes == SelectSeq(trace, LAMBDA e : e.op \in {"header", "body"})

\* C1: under every interleaving of the sending threads, the bytes on the
\* output stream are a concatenation of whole frames: the output is exactly
\* the writes in order, the writes alternate header, body, and each body is
\* the body of the same call of the same thread as the header before it;
\* only the frame being written by the holder of the lock lacks its body.
C1_FramesAreContiguous ==
    /\ m_out.buf = Flatten([k \in 1..Len(Writes) |-> Writes[k].bytes])
    /\ \A k \in 1..Len(Writes) :
          IF k % 2 = 1
          THEN /\ Writes[k].op = "header"
               /\ k = Len(Writes) => pc[Writes[k].thread] = "write"
          ELSE /\ Writes[k].op = "body"
               /\ Writes[k].thread = Writes[k - 1].thread
               /\ Writes[k].arg = Writes[k - 1].arg

\* two threads are sending at once: one has written its header and not yet
\* its body, while another, its content ready, waits in writeMessage
C1_Witness ==
    \E t1, t2 \in Senders :
        /\ t1 # t2
        /\ pc[t1] = "write"
        /\ pc[t2] = "writeMessage"
        /\ Len(Writes) % 2 = 1

\* the digits between "Content-Length: " and the header terminator
DeclaredDigits(h) == SubSeq(h, Len(ContentLengthKey) + 3, Len(h) - Len(HeaderTerminator))

\* C2: every frame written is exactly `Content-Length: <n>\r\n\r\n` followed
\* by exactly n body bytes, n being the byte length of the serialized JSON of
\* the call that wrote it; no Content-Type line is ever written.
C2_FrameFormat ==
    /\ FindStr(m_out.buf, ContentTypeKey) = npos
    /\ \A k \in 1..Len(Writes) :
          IF k % 2 = 1
          THEN LET h == Writes[k].bytes
               IN  /\ StartsWith(h, ContentLengthKey \o <<":", " ">>)
                   /\ Substr(h, Len(h) - 4) = <<CR, LF, CR, LF>>
                   /\ DeclaredDigits(h) # <<>>
                   /\ \A d \in 1..Len(DeclaredDigits(h)) : IsDigit(DeclaredDigits(h)[d])
                   /\ Head(DeclaredDigits(h)) = "0" => Len(DeclaredDigits(h)) = 1
                   /\ DecimalValue(DeclaredDigits(h)) = Len(stringify(Writes[k].arg))
          ELSE /\ Writes[k].bytes = stringify(Writes[k].arg)
               /\ Len(Writes[k].bytes) = DecimalValue(DeclaredDigits(Writes[k - 1].bytes))

\* a message and a batch have both been written, one of them with a body of
\* ten bytes or more (a length of two digits)
C2_Witness ==
    /\ Len(Writes) = 4
    /\ \E k \in {2, 4} : Writes[k].arg.type = "array" /\ Len(Writes[k].bytes) >= 10
    /\ \E k \in {2, 4} : Writes[k].arg.type = "object"

(***************************************************************************)
(* Round trip: properties.                                                 *)
(***************************************************************************)
\* the writes that stored their bytes: on the one stream that is input and
\* output a write stores nothing once a read has found the stream at its end
Stored == SelectSeq(Writes, LAMBDA e : e.bytes # <<>>)

\* the number of bytes of the first k frames stored
FrameEnd(k) == Len(Flatten([j \in 1..(2 * k) |-> Stored[j].bytes]))

\* the JSON value of what receiveMessage returned
ValueToJson(v) ==
    IF v.kind = "message" THEN toJson(v.msgs[1])
    ELSE JsonArray([k \in 1..Len(v.msgs) |-> toJson(v.msgs[k])])

\* C3: when the frames written by send calls are read back by
\* receiveMessage, the i-th call returns the i-th message sent: its body is
\* the body that was sent, its value is structurally equal to the value
\* that was sent (a single message for sendMessage), and it consumes exactly
\* the bytes of that frame.  A call made when every frame sent has been
\* received finds the stream at its end and fails with ConnectionError.
C3_RoundTrip ==
    /\ m_in.buf = m_out.buf
    /\ m_in.buf = Flatten([k \in 1..Len(Stored) |-> Stored[k].bytes])
    /\ \A i \in 1..Len(results) :
          IF results[i].from < Len(m_in.buf)
          THEN /\ 2 * i <= Len(Stored)
               /\ results[i].outcome = "returned"
               /\ results[i].content = Stored[2 * i].bytes
               /\ ValueToJson(results[i].value) = Stored[2 * i].arg
               /\ Stored[2 * i].arg.type = "object" <=> results[i].value.kind = "message"
               /\ results[i].from = FrameEnd(i - 1)
               /\ results[i].to = FrameEnd(i)
          ELSE /\ results[i].outcome = "ConnectionError"
               /\ results[i].reason = "closed"

\* a message was sent and received, and then the message with id 14 was
\* sent and received
C3_Witness ==
    /\ Len(results) >= 2
    /\ Len(Stored) >= 4
    /\ \E a, b \in 1..Len(trace) :
          /\ a < b
          /\ trace[a].op = "unlock" /\ trace[a].thread = Receiver
          /\ trace[b].op = "header" /\ trace[b].bytes # <<>>
    /\ results[1].outcome = "returned"
    /\ results[2].outcome = "returned"
    /\ results[2].value = [kind |-> "message", msgs |-> <<[id |-> 14]>>]
    /\ results[2].from > 0

(***************************************************************************)
(* The receive path: properties.                                           *)
(***************************************************************************)
\* the receiveMessage calls that got past the header
PastHeader == {i \in 1..Len(results) : results[i].bodyStart >= 0}

\* the bytes the stream held after the header of call i
BodyBytesHeld(i) == Len(m_in.buf) - results[i].bodyStart

\* C4: when the stream ends before contentLength body bytes are there,
\* receiveMessage fails with ConnectionError, and no partly read, padded
\* body is ever validated or decoded.
C4_ShortBodyIsConnectionError ==
    /\ pc[Receiver] \in {"validate", "decode"} =>
          loc[Receiver].nread = loc[Receiver].header.contentLength
    /\ \A i \in PastHeader :
          BodyBytesHeld(i) < results[i].header.contentLength =>
              results[i].outcome = "ConnectionError"

\* C5: receiveMessage gets to the body read and the decoding only with a
\* positive Content-Length from the header block.
C5_BodyReadOnlyWithPositiveLength ==
    /\ pc[Receiver] \in {"read", "validate", "decode"} =>
          loc[Receiver].header.contentLength > 0
    /\ \A i \in PastHeader : results[i].header.contentLength > 0

Min(a, b) == IF a <= b THEN a ELSE b

ContentTypeErrors ==
    {i \in 1..Len(results) :
        results[i].outcome = "ProtocolError" /\ results[i].reason \in {"type", "charset"}}

\* C6: a ProtocolError for the content type or the charset is raised only
\* after the body read; when the stream held the Content-Length body bytes,
\* exactly the header block (up to and including its blank line) and those
\* bytes have been consumed, and a well-formed frame that follows is
\* returned by the next receiveMessage call.
C6_ContentTypeErrorAfterBodyRead ==
    /\ pc[Receiver] = "validate" =>
          /\ loc[Receiver].nread =
                Min(loc[Receiver].header.contentLength,
                    Len(m_in.buf) - loc[Receiver].bodyStart)
          /\ m_in.pos = loc[Receiver].bodyStart + loc[Receiver].nread
    /\ \A i \in ContentTypeErrors :
          BodyBytesHeld(i) >= results[i].header.contentLength =>
              /\ results[i].bodyStart =
                    results[i].from
                    + FindStr(Substr(m_in.buf, results[i].from), HeaderTerminator)
                    + Len(HeaderTerminator)
              /\ results[i].nread = results[i].header.contentLength
              /\ results[i].to = results[i].bodyStart + results[i].header.contentLength
              /\ (i < Len(results) /\ StartsWith(Substr(m_in.buf, results[i].to), GoodFrame)) =>
                    /\ results[i + 1].outcome = "returned"
                    /\ results[i + 1].value = [kind |-> "message", msgs |-> <<[id |-> 1]>>]
                    /\ results[i + 1].from = results[i].to
                    /\ results[i + 1].to = results[i].to + Len(GoodFrame)

\* a frame with a charset that is not accepted was rejected, its body of
\* eight bytes read, and the well-formed frame after it was then returned
C6_Witness ==
    \E i \in ContentTypeErrors :
        /\ results[i].reason = "charset"
        /\ results[i].nread = 8
        /\ i < Len(results)
        /\ results[i + 1].outcome = "returned"
        /\ results[i + 1].from = results[i].to

\* C7 as claimed: after every ProtocolError, the malformed-terminator one
\* included, the whole declared body (which the stream held) has been
\* consumed.
C7_EveryProtocolErrorConsumesBody ==
    \A i \in 1..Len(results) :
        (/\ results[i].outcome = "ProtocolError"
         /\ Len(m_in.buf) - (results[i].to - results[i].nread)
                >= results[i].header.contentLength) =>
            results[i].nread = results[i].header.contentLength

\* C7, amended: a ProtocolError for the content type or the charset is
\* raised after the declared body has been consumed, as far as the stream
\* held it; the malformed-terminator ProtocolError is raised while the header
\* is parsed, with the stream right after the lone carriage return and no
\* body byte consumed.
C7_ProtocolErrorPosition ==
    \A i \in 1..Len(results) :
        results[i].outcome = "ProtocolError" =>
            \/ /\ results[i].reason \in {"type", "charset"}
               /\ results[i].bodyStart >= 0
               /\ results[i].nread = Min(results[i].header.contentLength, BodyBytesHeld(i))
               /\ results[i].to = results[i].bodyStart + results[i].nread
            \/ /\ results[i].reason = "header"
               /\ results[i].bodyStart = -1
               /\ results[i].nread = 0
               /\ results[i].to >= 1
               /\ m_in.buf[results[i].to] = CR
               /\ peek(m_in.buf, results[i].to) # LF

\* a header that declared eight body bytes ended in a lone carriage return:
\* the eight bytes were in the stream and were not consumed
C7_Witness ==
    \E i \in 1..Len(results) :
        /\ results[i].outcome = "ProtocolError"
        /\ results[i].reason = "header"
        /\ results[i].header.contentLength = 8
        /\ Len(m_in.buf) - results[i].to >= 8

\* C8: when no byte at all is available at the call, receiveMessage fails
\* with ConnectionError and consumes nothing; the header is parsed only when
\* a byte is available.
C8_ClosedStreamIsConnectionError ==
    /\ pc[Receiver] = "readMessageHeader" => m_in.pos < Len(m_in.buf)
    /\ \A i \in 1..Len(results) :
          results[i].from = Len(m_in.buf) =>
              /\ results[i].outcome = "ConnectionError"
              /\ results[i].to = results[i].from

\* the peer closed after a whole message: the first call returned it, the
\* next found no byte
C8_Witness ==
    /\ Len(results) >= 2
    /\ results[1].outcome = "returned"
    /\ results[2].from = Len(m_in.buf)
    /\ results[2].outcome = "ConnectionError"

\* C9: when the stream is exhausted while the header is parsed, before the
\* terminator has been read completely, the failure is a ConnectionError.
C9_HeaderEofIsConnectionError ==
    \A i \in 1..Len(results) :
        (results[i].reason = "header" /\ results[i].to = Len(m_in.buf)) =>
            results[i].outcome = "ConnectionError"

\* the first start of a line, from line start p on, that holds a carriage
\* return; -1 when there is none
RECURSIVE TerminatorAt(_, _)
TerminatorAt(buf, p) ==
    IF p >= Len(buf) THEN -1
    ELSE IF buf[p + 1] = CR THEN p
    ELSE LET k == FindChar(Substr(buf, p), LF)
         IN  IF k = npos THEN -1 ELSE TerminatorAt(buf, p + k + 1)

\* C10: in header parsing, when the byte at the start of a line is a
\* carriage return and the byte after it is not a line feed, the call fails
\* with ProtocolError; when it is a line feed, both are consumed and the body
\* starts at the very next byte.
C10_HeaderTerminator ==
    \A i \in 1..Len(results) :
        LET p == TerminatorAt(m_in.buf, results[i].from)
        IN  (p >= 0 /\ p + 1 < Len(m_in.buf)) =>
                IF m_in.buf[p + 2] = LF
                THEN results[i].bodyStart = p + 2
                ELSE /\ results[i].outcome = "ProtocolError"
                     /\ results[i].reason = "header"
                     /\ results[i].to = p + 1

\* one call met a carriage return followed by another byte and failed; the
\* next met the blank line and its body started right after it
C10_Witness ==
    /\ Len(results) >= 2
    /\ results[1].outcome = "ProtocolError"
    /\ results[1].reason = "header"
    /\ results[1].to < Len(m_in.buf)
    /\ results[2].bodyStart > results[2].from

(***************************************************************************)
(* The lock: properties.                                                   *)
(***************************************************************************)
\* thread t is inside receiveMessage, past its lock_guard
InReceive(t) == pc[t] \in {"peek", "readMessageHeader", "read", "validate", "decode"}

\* thread t is inside writeMessage, past its lock_guard
InWrite(t) == pc[t] \in {"writeMessageHeader", "write", "flush", "unlock"}

\* C11: the receive path and the send paths exclude each other: in no step
\* taken while a thread is inside receiveMessage does the output stream
\* change, in no step taken while a thread is inside writeMessage does the
\* input stream change, and a thread enters either only when no thread is
\* inside the other.
C11_ReceiveAndSendExclude ==
    [][/\ (\E t \in Threads : InReceive(t)) =>
             (m_out' = m_out /\ \A t \in Threads : ~InWrite(t)')
       /\ (\E t \in Threads : InWrite(t)) =>
             (m_in' = m_in /\ \A t \in Threads : ~InReceive(t)')]_vars

\* a thread is inside receiveMessage, about to read the body, while the
\* sending thread, its content ready, waits for the mutex; a frame has
\* been written before
C11_Witness ==
    /\ pc[Receiver] = "read"
    /\ pc[1] = "writeMessage"
    /\ m_writeMutex = Receiver
    /\ m_out.flushed > 0

\* the header block call i read, from its first byte to the blank line
HeaderBlock(i) ==
    Prefix(Substr(m_in.buf, results[i].from), results[i].bodyStart - results[i].from)

\* the header block has the line Content-Type: <value> and mentions
\* Content-Type nowhere else
SoleTypeLine(block, value) ==
    /\ \/ StartsWith(block, TypeLine(value))
       \/ FindStr(block, <<LF>> \o TypeLine(value)) # npos
    /\ FindStr(Substr(block, FindStr(block, ContentTypeKey) + 1), ContentTypeKey) = npos

\* C12: a call whose header carries a Content-Type that does not begin with
\* application/vscode-jsonrpc (text/plain, for one) fails with a
\* ProtocolError for the content type whose text contains the value
\* received; a call whose Content-Type begins with that prefix never fails
\* for the content type.
C12_MimeTypePrefix ==
    \A i \in PastHeader :
        LET contentType == results[i].header.contentType
        IN  /\ SoleTypeLine(HeaderBlock(i), TextPlain) => contentType = TextPlain
            /\ ~StartsWith(contentType, MimePrefix) =>
                  /\ results[i].outcome = "ProtocolError"
                  /\ results[i].reason = "type"
                  /\ FindStr(results[i].what, contentType) # npos
                  /\ Len(results[i].what) > Len(contentType)
            /\ StartsWith(contentType, MimePrefix) => results[i].reason # "type"

\* a frame with Content-Type: text/plain was rejected, the text of the error
\* ending in text/plain
C12_Witness ==
    \E i \in PastHeader :
        /\ results[i].header.contentType = TextPlain
        /\ results[i].outcome = "ProtocolError"
        /\ results[i].what = TypeErrorText \o TextPlain

\* the calls whose Content-Type has the accepted prefix and names a charset
WithCharset ==
    {i \in PastHeader :
        /\ StartsWith(results[i].header.contentType, MimePrefix)
        /\ FindStr(results[i].header.contentType, charsetKey) # npos}

\* C13: a call whose Content-Type has the accepted prefix and contains
\* charset= fails with a ProtocolError, for the charset, unless the text
\* after charset= up to the next semicolon, trimmed, is exactly utf-8 or
\* utf8, and then it raises no ProtocolError: utf8, utf-8 and a padded
\* " utf8 ;" are accepted, UTF-8 and latin1 are rejected.
C13_CharsetAccepted ==
    \A i \in WithCharset :
        LET contentType == results[i].header.contentType
            accepted == results[i].outcome # "ProtocolError"
        IN  /\ accepted <=> charsetOf(contentType) \in {Utf8Dash, Utf8Plain}
            /\ ~accepted => results[i].reason = "charset"
            /\ contentType \in {Utf8Type, DefaultContentType, PaddedType} => accepted
            /\ contentType \in {UpperType, Latin1Type} => ~accepted

\* a frame with charset=UTF-8 was rejected for its charset, and its body
\* had been read
C13_Witness ==
    \E i \in WithCharset :
        /\ results[i].header.contentType = UpperType
        /\ results[i].outcome = "ProtocolError"
        /\ results[i].what = CharsetErrorText \o <<"U", "T", "F", "-", "8">>
        /\ results[i].nread = 8

\* the calls whose header block has no Content-Type field
WithoutContentType ==
    {i \in PastHeader : FindStr(HeaderBlock(i), ContentTypeKey) = npos}

\* the calls whose header block carries the default content type
WithDefaultContentType ==
    {i \in PastHeader : SoleTypeLine(HeaderBlock(i), DefaultContentType)}

\* C14: a call whose header block has no Content-Type field raises no
\* ProtocolError for the content type or the charset and decodes the body,
\* as a call does whose header block carries the default content type:
\* both hold the default content type when the header is parsed, and both
\* end as the decoding of the body they read ends.
C14_AbsentContentType ==
    \A i \in WithoutContentType \cup WithDefaultContentType :
        /\ results[i].header.contentType = DefaultContentType
        /\ results[i].outcome # "ProtocolError"
        /\ results[i].reason \notin {"type", "charset"}
        /\ LET m == messageFromJson(parse(results[i].content))
           IN  IF m.kind = "error"
               THEN results[i].outcome = "JsonError"
               ELSE results[i].outcome = "returned" /\ results[i].value = m
        /\ results[i].content = Body1 =>
              results[i].value = [kind |-> "message", msgs |-> <<[id |-> 1]>>]

\* a frame with a Content-Length field and nothing else was received and
\* its body returned as the message it encodes
C14_Witness ==
    \E i \in WithoutContentType :
        /\ HeaderBlock(i) = LengthLine(<<"8">>) \o <<CR, LF>>
        /\ results[i].outcome = "returned"
        /\ results[i].value = [kind |-> "message", msgs |-> <<[id |-> 1]>>]

(***************************************************************************)
(* The send operations: properties.                                        *)
(***************************************************************************)
\* what thread t did to the lock and to the output stream, in order
EventsOf(t) == SelectSeq(trace, LAMBDA e : e.thread = t)

\* the text of the JSON array whose elements are the JSON of the messages,
\* in their order: [ {"id":<n1>} , ... ] without the spaces
ArrayText(messages) ==
    <<"[">>
    \o JoinComma([i \in 1..Len(messages) |->
                     ObjOpen \o to_string(messages[i].id) \o <<"}">>])
    \o <<"]">>

\* C15: each sendMessageBatch writes one frame: its header write follows the
\* taking of the lock and is followed by one body write of the same call,
\* one flush and the release of the lock, and the body is a JSON array with
\* one element per message of the batch, the i-th the JSON of the i-th
\* message, for batches of every length, the empty one included.
C15_BatchIsOneFrame ==
    \A t \in Senders :
        LET e == EventsOf(t)
        IN  \A p \in 1..Len(e) :
                (e[p].op = "header" /\ e[p].call.op = "sendMessageBatch") =>
                    /\ p > 1 /\ e[p - 1].op = "lock"
                    /\ p + 1 <= Len(e) =>
                          /\ e[p + 1].op = "body"
                          /\ e[p + 1].call = e[p].call
                          /\ e[p + 1].bytes = ArrayText(e[p].call.messages)
                          /\ parse(e[p + 1].bytes) =
                                JsonArray([i \in 1..Len(e[p].call.messages) |->
                                              toJson(e[p].call.messages[i])])
                    /\ p + 2 <= Len(e) => e[p + 2].op = "flush"
                    /\ p + 3 <= Len(e) => e[p + 3].op = "unlock"
                    /\ p + 1 > Len(e) => pc[t] = "write"

\* a batch of two different messages and an empty batch have both been
\* sent, each as one flushed frame
C15_Witness ==
    /\ \A t \in Senders : pc[t] = "idle"
    /\ \E k \in 1..Len(Writes) :
          /\ Writes[k].op = "body"
          /\ Writes[k].call = [op |-> "sendMessageBatch", messages |-> PairBatch]
          /\ Writes[k].bytes = ArrayText(PairBatch)
    /\ \E k \in 1..Len(Writes) :
          /\ Writes[k].op = "body"
          /\ Writes[k].call = [op |-> "sendMessageBatch", messages |-> <<>>]
          /\ Writes[k].bytes = <<"[", "]">>
    /\ m_out.flushed = Len(m_out.buf)

\* the stream s, which starts at a header block, without the lines of that
\* block that are fields other than Content-Length and Content-Type
RECURSIVE DropUnknown(_)
DropUnknown(s) ==
    IF s = <<>> \/ Head(s) = CR \/ FindChar(s, LF) = npos THEN s
    ELSE LET k == FindChar(s, LF)
             line == Prefix(s, k)
             sep == FindChar(line, ":")
         IN  IF sep # npos /\ TrimView(Prefix(line, sep)) \notin {ContentLengthKey, ContentTypeKey}
             THEN DropUnknown(Substr(s, k + 1))
             ELSE Prefix(s, k + 1) \o DropUnknown(Substr(s, k + 1))

\* C17: fields other than Content-Length and Content-Type are ignored: a
\* call that reads a header block with such lines, first, between the known
\* fields or last, parses the contentLength and contentType that the block
\* without those lines gives, fails in the header only if that block does,
\* and starts the body right after the blank line.  The input stream does
\* not change, so each call is looked at as the one that ended last, in the
\* states from its end to the end of the next.
C17_UnknownFieldsIgnored ==
    \A i \in {Len(results)} \ {0} :
        LET rest == Substr(m_in.buf, results[i].from)
            plain == DropUnknown(rest)
            r == readMessageHeader(plain, 0)
        IN  plain # rest =>
                IF r.status = "ok"
                THEN /\ i \in PastHeader
                     /\ results[i].header = r.header
                     /\ results[i].bodyStart - results[i].from
                           = r.pos + (Len(rest) - Len(plain))
                     /\ Substr(HeaderBlock(i), Len(HeaderBlock(i)) - 4) = HeaderTerminator
                     /\ results[i].reason # "header"
                ELSE /\ results[i].outcome = r.status
                     /\ results[i].reason = "header"

\* a header block with an unknown field after Content-Length, whose value
\* reads like a Content-Length field, and another after Content-Type was
\* parsed to length 8 and the charset utf8, and the message was returned
C17_Witness ==
    \E i \in PastHeader :
        /\ HeaderBlock(i) =
              LengthLine(<<"8">>) \o Line(UnknownKey, ContentLengthKey \o <<":", " ", "9">>)
              \o TypeLine(Utf8Type) \o Line(UnknownKey, <<"1">>) \o <<CR, LF>>
        /\ results[i].header = [contentLength |-> 8, contentType |-> Utf8Type]
        /\ results[i].outcome = "returned"
        /\ results[i].content = Body1

\* well-formed frames, each as its header block and its body: a
\* Content-Length equal to the body's length, a content type that is
\* accepted or absent, other fields anywhere, a JSON body
WellFormedFrames ==
    { [head |-> LengthLine(<<"8">>) \o <<CR, LF>>, body |-> Body1],
      [head |-> LengthLine(<<"8">>) \o TypeLine(Utf8Type) \o <<CR, LF>>, body |-> Body1],
      [head |-> LengthLine(<<"8">>) \o TypeLine(DefaultContentType) \o <<CR, LF>>,
       body |-> Body1],
      [head |-> Line(UnknownKey, <<"1">>) \o LengthLine(<<"8">>) \o <<CR, LF>>,
       body |-> Body1],
      [head |-> LengthLine(<<"1", "2">>) \o <<CR, LF>>, body |-> BlankLinesBody] }

NotAFrame == [head |-> <<>>, body |-> <<>>]

\* the stream s as a sequence of well-formed frames; NotAFrame stands for
\* what is left where no well-formed frame starts
RECURSIVE FramesOf(_)
FramesOf(s) ==
    IF s = <<>> THEN <<>>
    ELSE IF \E f \in WellFormedFrames : StartsWith(s, f.head \o f.body)
    THEN LET f == CHOOSE g \in WellFormedFrames : StartsWith(s, g.head \o g.body)
         IN  <<f>> \o FramesOf(Substr(s, Len(f.head) + Len(f.body)))
    ELSE <<NotAFrame>>

\* where frame number n + 1 of fs starts
OffsetOf(fs, n) == Len(Flatten([k \in 1..n |-> fs[k].head \o fs[k].body]))

\* C18: on a stream that is k well-formed frames and nothing else, the
\* i-th receiveMessage call, i <= k, starts where the i-th frame starts,
\* consumes its header block and its contentLength body bytes and nothing
\* more, and returns its body decoded; the call after the k-th fails with
\* ConnectionError.  Whatever the body holds, carriage returns, line feeds
\* or the text of a header field, a call on any stream that read its whole
\* body ends contentLength bytes after the body's start.
C18_FramesInOrder ==
    /\ LET fs == FramesOf(m_in.buf)
       IN  (\A k \in 1..Len(fs) : fs[k] # NotAFrame) =>
               \A i \in 1..Len(results) :
                   IF i <= Len(fs)
                   THEN /\ results[i].from = OffsetOf(fs, i - 1)
                        /\ results[i].bodyStart = results[i].from + Len(fs[i].head)
                        /\ results[i].header.contentLength = Len(fs[i].body)
                        /\ results[i].content = fs[i].body
                        /\ results[i].to = OffsetOf(fs, i)
                        /\ results[i].outcome = "returned"
                        /\ results[i].value = [kind |-> "message", msgs |-> <<[id |-> 1]>>]
                   ELSE /\ results[i].outcome = "ConnectionError"
                        /\ results[i].from = Len(m_in.buf)
                        /\ results[i].to = Len(m_in.buf)
    /\ \A i \in PastHeader :
          BodyBytesHeld(i) >= results[i].header.contentLength =>
              /\ results[i].content =
                    SubSeq(m_in.buf, results[i].bodyStart + 1,
                           results[i].bodyStart + results[i].header.contentLength)
              /\ results[i].to = results[i].bodyStart + results[i].header.contentLength
              /\ i < Len(results) => results[i + 1].from = results[i].to

\* two frames were received in order, the first with a body that starts
\* with blank lines, and the third call found the stream at its end
C18_Witness ==
    /\ Len(FramesOf(m_in.buf)) = 2
    /\ Len(results) = 3
    /\ results[1].content = BlankLinesBody
    /\ results[1].outcome = "returned"
    /\ results[2].outcome = "returned"
    /\ results[2].from = results[1].to
    /\ results[3].outcome = "ConnectionError"

\* what one send does, in order
SendOrder == <<"lock", "header", "body", "flush", "unlock">>

\* C19: what each thread does in its sends is lock, header write, body
\* write, flush, unlock, over and over: one flush per message, after the
\* body and before the lock is released.  Bytes written and not yet flushed
\* exist only while the thread that wrote them holds the lock, so whenever
\* the lock is free, or is taken, everything written before is flushed.
C19_SendOrder ==
    /\ \A t \in Senders :
          LET e == EventsOf(t)
          IN  /\ \A p \in 1..Len(e) : e[p].op = SendOrder[((p - 1) % 5) + 1]
              /\ pc[t] \in {"idle", "writeMessage"} => Len(e) % 5 = 0
              /\ pc[t] = "unlock" => Len(e) % 5 = 4
    /\ \A p \in 1..Len(trace) :
          trace[p].op = "lock" =>
              \A n \in 1..(p - 1) :
                  trace[n].op \in {"header", "body"} =>
                      \E f \in (n + 1)..(p - 1) :
                          trace[f].op = "flush" /\ trace[f].thread = trace[n].thread
    /\ m_out.flushed < Len(m_out.buf) =>
          /\ m_writeMutex \in Senders
          /\ pc[m_writeMutex] \in {"write", "flush"}
    /\ m_writeMutex = 0 => m_out.flushed = Len(m_out.buf)

\* a thread has sent a message and released the lock, all of it flushed, and
\* another thread that took the lock after it has written a frame that it
\* has not flushed yet
C19_Witness ==
    \E t1, t2 \in Senders :
        /\ t1 # t2
        /\ Len(EventsOf(t1)) = 5
        /\ pc[t2] = "flush"
        /\ m_writeMutex = t2
        /\ m_out.flushed > 0
        /\ m_out.flushed < Len(m_out.buf)

\* the events of the given kind in the trace so far
CountOf(op) == Len(SelectSeq(trace, LAMBDA e : e.op = op))

\* C20: the lock is released on every way out of receiveMessage and of the
\* send operations, a throw of ConnectionError or ProtocolError included:
\* the lock is held exactly while a thread is inside receiveMessage or
\* writeMessage, and by that thread; every receiveMessage call that has
\* ended, however it ended, has released it; the holder is at a step that
\* waits for nothing, and a thread that waits for the lock can take it as
\* soon as it is free, so no thread is ever stuck on the lock.
C20_LockReleased ==
    /\ m_writeMutex = 0 <=> \A t \in Threads : ~InReceive(t) /\ ~InWrite(t)
    /\ m_writeMutex # 0 => InReceive(m_writeMutex) \/ InWrite(m_writeMutex)
    /\ CountOf("lock") - CountOf("unlock") = IF m_writeMutex = 0 THEN 0 ELSE 1
    /\ Len(SelectSeq(trace, LAMBDA e : e.op = "unlock" /\ e.thread = Receiver))
          = Len(results)
    /\ m_writeMutex = Receiver =>
          pc[Receiver] \in {"peek", "readMessageHeader", "read", "validate", "decode"}
    /\ m_writeMutex \in Senders => ENABLED Send(m_writeMutex)
    /\ \A t \in Senders :
          (pc[t] = "writeMessage" /\ m_writeMutex = 0) => ENABLED WriteLock(t)
    /\ (pc[Receiver] = "idle" /\ m_writeMutex = 0 /\ Len(results) < MaxCalls) =>
          ENABLED ReceiveLock(Receiver)

\* a receiveMessage call failed with ProtocolError and one with
\* ConnectionError; after the first failure a send took the lock and
\* completed and a receiveMessage call returned a message; the lock is free
C20_Witness ==
    /\ Len(results) = 3
    /\ results[1].outcome = "ProtocolError"
    /\ results[2].outcome = "returned"
    /\ results[3].outcome = "ConnectionError"
    /\ \E a, b \in 1..Len(trace) :
          /\ a < b
          /\ trace[a].op = "unlock" /\ trace[a].thread = Receiver
          /\ trace[b].op = "lock" /\ trace[b].thread = 1
    /\ pc[1] = "idle"
    /\ m_out.flushed = Len(m_out.buf) /\ m_out.flushed > 0
    /\ m_writeMutex = 0

=============================================================================
